---------------------------- MODULE Spec2Model ----------------------------
(***************************************************************************)
(* A model of scripts/create_icon.py.                                      *)
(*                                                                         *)
(* Two state machines share this module:                                   *)
(*   Spec        main(): the export sequence over a filesystem that may    *)
(*               refuse any write;                                         *)
(*   RenderSpec  create_app_icon(size): the drawing calls, one step per    *)
(*               call, over a canvas of pixels.                            *)
(* main() holds a rendered canvas only as a value (Canvas(size)): the      *)
(* renderer is a pure function of size, so the bitmap a file holds is      *)
(* identified by the size it was rendered at.                              *)
(***************************************************************************)
EXTENDS Integers, Sequences, FiniteSets, TLC

VARIABLES
    \* ---- main() ----
    pc,        \* position of main()
    idx,       \* 1-based position in the table the current loop walks
    icon,      \* the local `icon`: the canvas last rendered, or NoIcon
    dirs,      \* directories that exist
    files,     \* path -> content, for the files that exist
    stdout,    \* lines printed so far
    exitCode,  \* process exit status, -1 while running
    tree0,     \* the tree main() started from: [dirs, files]
    wrote,     \* paths this run has written completely, in order
    failedAt,  \* the path whose write or mkdir raised, or NoPath
    \* ---- create_app_icon(size) ----
    size,      \* the argument
    flatEdges, \* whether the installed Pillow fills a polygon's horizontal edges
    rpc,       \* position of create_app_icon
    row,       \* the gradient loop's y
    star,      \* 1-based position in star_positions
    img,       \* the gradient image
    mask,      \* the 'L' mask image
    output     \* the image returned

mainVars == <<pc, idx, icon, dirs, files, stdout, exitCode, tree0, wrote, failedAt>>
renderVars == <<size, flatEdges, rpc, row, star, img, mask, output>>
vars == <<mainVars, renderVars>>

---------------------------------------------------------------------------
(* main(): tables *)

IosDir == "AppIcon.appiconset"

\* Faulty variant: the 87-pixel icon rendered at 85.
ios_sizes_Typo ==
    << <<40, "icon-40.png">>,
       <<60, "icon-60.png">>,
       <<58, "icon-58.png">>,
       <<85, "icon-87.png">>,
       <<80, "icon-80.png">>,
       <<120, "icon-120.png">>,
       <<180, "icon-180.png">>,
       <<1024, "icon-1024.png">> >>

\* ios_sizes: (pixel size, filename)
ios_sizes ==
    << <<40, "icon-40.png">>,
       <<60, "icon-60.png">>,
       <<58, "icon-58.png">>,
       <<87, "icon-87.png">>,
       <<80, "icon-80.png">>,
       <<120, "icon-120.png">>,
       <<180, "icon-180.png">>,
       <<1024, "icon-1024.png">> >>

\* android_sizes: (pixel size, folder)
android_sizes ==
    << <<48, "mipmap-mdpi">>,
       <<72, "mipmap-hdpi">>,
       <<96, "mipmap-xhdpi">>,
       <<144, "mipmap-xxhdpi">>,
       <<192, "mipmap-xxxhdpi">> >>

AndroidFolders == {android_sizes[i][2] : i \in 1..Len(android_sizes)}

\* A Python string the model has to look into is a tuple of characters.
S20x20 == <<"2", "0", "x", "2", "0">>
S29x29 == <<"2", "9", "x", "2", "9">>
S40x40 == <<"4", "0", "x", "4", "0">>
S60x60 == <<"6", "0", "x", "6", "0">>
S1024x1024 == <<"1", "0", "2", "4", "x", "1", "0", "2", "4">>
S1x == <<"1", "x">>
S2x == <<"2", "x">>
S3x == <<"3", "x">>

\* Faulty variant: the "scale" item left out of every entry.
ImageEntry_NoScale(sz, idiom, filename, scale) ==
    << <<"size", sz>>, <<"idiom", idiom>>, <<"filename", filename>> >>

\* One dict literal of the "images" list: its items in source order.
ImageEntry(sz, idiom, filename, scale) ==
    << <<"size", sz>>, <<"idiom", idiom>>, <<"filename", filename>>, <<"scale", scale>> >>

\* The dict `contents`: each dict is the sequence of its (key, value) items.
contents ==
    [images |->
        << ImageEntry(S20x20, "iphone", "icon-40.png", S2x),
           ImageEntry(S20x20, "iphone", "icon-60.png", S3x),
           ImageEntry(S29x29, "iphone", "icon-58.png", S2x),
           ImageEntry(S29x29, "iphone", "icon-87.png", S3x),
           ImageEntry(S40x40, "iphone", "icon-80.png", S2x),
           ImageEntry(S40x40, "iphone", "icon-120.png", S3x),
           ImageEntry(S60x60, "iphone", "icon-120.png", S2x),
           ImageEntry(S60x60, "iphone", "icon-180.png", S3x),
           ImageEntry(S1024x1024, "ios-marketing", "icon-1024.png", S1x) >>,
     info |-> << <<"version", 1>>, <<"author", "xcode">> >>]

---------------------------------------------------------------------------
(* main(): values *)

NoIcon == [side |-> 0]
NoPath == <<"", "">>

\* The value create_app_icon(px) returns, as main() sees it.
Canvas(px) == [side |-> px]

\* What icon.save(path, 'PNG') leaves in the file: the bitmap, PNG-encoded.
PngFile(canvas) == [fmt |-> "PNG", width |-> canvas.side, height |-> canvas.side,
                    bitmap |-> canvas]

\* What json.dump(contents, f, indent=2) leaves in the file: the members of
\* the top-level object in order, "images" as an array of objects.
JsonDump(doc) ==
    [fmt |-> "JSON",
     members |-> << <<"images", doc.images>>, <<"info", doc.info>> >>]

\* A file an earlier run or another tool left behind.
Stale == [fmt |-> "STALE"]
\* A file whose write was cut short.
Partial == [fmt |-> "PARTIAL"]

---------------------------------------------------------------------------
(* The filesystem. A path is <<directory, name>>. *)

DirOf(p) == p[1]

Exists(p) == p \in DOMAIN files

Put(fs, p, c) == [q \in (DOMAIN fs) \cup {p} |-> IF q = p THEN c ELSE fs[q]]

Remove(fs, p) == [q \in (DOMAIN fs) \ {p} |-> fs[q]]

\* What a write that raised can leave at p: nothing touched when the open
\* itself failed (always so when the directory is missing); a truncated file
\* or no file when the failure came after the open.
AfterFailedWrite(fs, ds, p) ==
    IF DirOf(p) \in ds THEN {fs, Put(fs, p, Partial), Remove(fs, p)} ELSE {fs}

\* An uncaught exception: the interpreter prints the traceback and exits 1.
Crash(p) ==
    /\ pc' = "crashed"
    /\ exitCode' = 1
    /\ failedAt' = p

\* Faulty variant: the exception is swallowed (try/except: pass) and main() goes on.
WriteFile_Swallow(p, c, nextpc) ==
    \/ /\ DirOf(p) \in dirs
       /\ files' = Put(files, p, c)
       /\ wrote' = Append(wrote, p)
       /\ pc' = nextpc
       /\ UNCHANGED <<exitCode, failedAt>>
    \/ /\ files' \in AfterFailedWrite(files, dirs, p)
       /\ pc' = nextpc
       /\ failedAt' = p
       /\ UNCHANGED <<exitCode, wrote>>

\* open(p, 'w') and the write of content c: it succeeds only in a directory
\* that exists, and may raise (OSError) anywhere.
WriteFile(p, c, nextpc) ==
    \/ /\ DirOf(p) \in dirs
       /\ files' = Put(files, p, c)
       /\ wrote' = Append(wrote, p)
       /\ pc' = nextpc
       /\ UNCHANGED <<exitCode, failedAt>>
    \/ /\ files' \in AfterFailedWrite(files, dirs, p)
       /\ Crash(p)
       /\ UNCHANGED wrote

---------------------------------------------------------------------------
(* main(): initial trees *)

IosTrees ==
    { [dirs |-> {}, files |-> <<>>],
      [dirs |-> {IosDir}, files |-> <<>>],
      [dirs |-> {IosDir},
       files |-> [p \in {<<IosDir, "icon-40.png">>, <<IosDir, "Contents.json">>,
                         <<IosDir, "icon-76.png">>} |-> Stale]] }

\* A density folder that is already there holds an older ic_launcher.png.
AndroidTrees ==
    { [dirs |-> D, files |-> [p \in {<<d, "ic_launcher.png">> : d \in D} |-> Stale]]
        : D \in SUBSET AndroidFolders }

Merge(f, g) == [p \in (DOMAIN f) \cup (DOMAIN g) |-> IF p \in DOMAIN f THEN f[p] ELSE g[p]]

InitTrees ==
    { [dirs |-> i.dirs \cup a.dirs, files |-> Merge(i.files, a.files)]
        : i \in IosTrees, a \in AndroidTrees }

RenderIdle ==
    /\ size = 0
    /\ flatEdges = FALSE
    /\ rpc = "idle"
    /\ row = 0
    /\ star = 1
    /\ img = <<>>
    /\ mask = <<>>
    /\ output = <<>>

Init ==
    /\ pc = "start"
    /\ idx = 1
    /\ icon = NoIcon
    /\ tree0 \in InitTrees
    /\ dirs = tree0.dirs
    /\ files = tree0.files
    /\ stdout = <<>>
    /\ exitCode = -1
    /\ wrote = <<>>
    /\ failedAt = NoPath
    /\ RenderIdle

---------------------------------------------------------------------------
(* main(): one action per statement *)

\* print("Generating iOS icons...")
PrintIosHeader ==
    /\ pc = "start"
    /\ stdout' = Append(stdout, <<"Generating iOS icons...">>)
    /\ pc' = "ios_render"
    /\ UNCHANGED <<idx, icon, dirs, files, exitCode, tree0, wrote, failedAt, renderVars>>

\* Faulty variant: the progress line is printed before the file is saved.
IosRender_AnnounceFirst ==
    /\ pc = "ios_render"
    /\ icon' = Canvas(ios_sizes[idx][1])
    /\ stdout' = Append(stdout, <<"Created", ios_sizes[idx][2], ios_sizes[idx][1]>>)
    /\ pc' = "ios_save"
    /\ UNCHANGED <<idx, dirs, files, exitCode, tree0, wrote, failedAt, renderVars>>

\* icon = create_app_icon(size)
IosRender ==
    /\ pc = "ios_render"
    /\ icon' = Canvas(ios_sizes[idx][1])
    /\ pc' = "ios_save"
    /\ UNCHANGED <<idx, dirs, files, stdout, exitCode, tree0, wrote, failedAt, renderVars>>

\* icon.save(os.path.join(ios_path, filename), 'PNG')
IosSave ==
    /\ pc = "ios_save"
    /\ WriteFile(<<IosDir, ios_sizes[idx][2]>>, PngFile(icon), "ios_print")
    /\ UNCHANGED <<idx, icon, dirs, stdout, tree0, renderVars>>

\* print(f"Created {filename} ({size}x{size})"), and the loop's next round
IosPrint ==
    /\ pc = "ios_print"
    /\ stdout' = Append(stdout, <<"Created", ios_sizes[idx][2], ios_sizes[idx][1]>>)
    /\ IF idx < Len(ios_sizes)
         THEN idx' = idx + 1 /\ pc' = "ios_render"
         ELSE idx' = 1 /\ pc' = "manifest"
    /\ UNCHANGED <<icon, dirs, files, exitCode, tree0, wrote, failedAt, renderVars>>

\* with open(os.path.join(ios_path, 'Contents.json'), 'w') as f: json.dump(...)
WriteManifest ==
    /\ pc = "manifest"
    /\ WriteFile(<<IosDir, "Contents.json">>, JsonDump(contents), "android_header")
    /\ UNCHANGED <<idx, icon, dirs, stdout, tree0, renderVars>>

\* print("\nGenerating Android icons...")
PrintAndroidHeader ==
    /\ pc = "android_header"
    /\ stdout' = Append(stdout, <<"\nGenerating Android icons...">>)
    /\ pc' = "makedirs"
    /\ UNCHANGED <<idx, icon, dirs, files, exitCode, tree0, wrote, failedAt, renderVars>>

\* os.makedirs(folder_path, exist_ok=True)
Makedirs ==
    /\ pc = "makedirs"
    /\ LET folder == android_sizes[idx][2] IN
         \/ /\ dirs' = dirs \cup {folder}
            /\ pc' = "android_render"
            /\ UNCHANGED <<exitCode, failedAt>>
         \/ /\ Crash(<<folder, "">>)
            /\ UNCHANGED dirs
    /\ UNCHANGED <<idx, icon, files, stdout, tree0, wrote, renderVars>>

\* Faulty variant: the Android loop renders at the iOS table's sizes.
AndroidRender_IosTable ==
    /\ pc = "android_render"
    /\ icon' = Canvas(ios_sizes[idx][1])
    /\ pc' = "save_launcher"
    /\ UNCHANGED <<idx, dirs, files, stdout, exitCode, tree0, wrote, failedAt, renderVars>>

\* icon = create_app_icon(size)
AndroidRender ==
    /\ pc = "android_render"
    /\ icon' = Canvas(android_sizes[idx][1])
    /\ pc' = "save_launcher"
    /\ UNCHANGED <<idx, dirs, files, stdout, exitCode, tree0, wrote, failedAt, renderVars>>

\* icon.save(os.path.join(folder_path, 'ic_launcher.png'), 'PNG')
SaveLauncher ==
    /\ pc = "save_launcher"
    /\ WriteFile(<<android_sizes[idx][2], "ic_launcher.png">>, PngFile(icon), "save_round")
    /\ UNCHANGED <<idx, icon, dirs, stdout, tree0, renderVars>>

\* Faulty variant: the second save goes to ic_launcher.png again.
SaveRound_SameName ==
    /\ pc = "save_round"
    /\ WriteFile(<<android_sizes[idx][2], "ic_launcher.png">>, PngFile(icon), "android_print")
    /\ UNCHANGED <<idx, icon, dirs, stdout, tree0, renderVars>>

\* icon.save(os.path.join(folder_path, 'ic_launcher_round.png'), 'PNG')
SaveRound ==
    /\ pc = "save_round"
    /\ WriteFile(<<android_sizes[idx][2], "ic_launcher_round.png">>, PngFile(icon),
                 "android_print")
    /\ UNCHANGED <<idx, icon, dirs, stdout, tree0, renderVars>>

\* print(f"Created {folder}/ic_launcher.png ({size}x{size})"), and the next round
AndroidPrint ==
    /\ pc = "android_print"
    /\ stdout' = Append(stdout, <<"Created", android_sizes[idx][2], "ic_launcher.png",
                                  android_sizes[idx][1]>>)
    /\ IF idx < Len(android_sizes)
         THEN idx' = idx + 1 /\ pc' = "makedirs"
         ELSE idx' = 1 /\ pc' = "final_print"
    /\ UNCHANGED <<icon, dirs, files, exitCode, tree0, wrote, failedAt, renderVars>>

\* print("\nApp icons generated successfully!"); main() returns, exit status 0
PrintDone ==
    /\ pc = "final_print"
    /\ stdout' = Append(stdout, <<"\nApp icons generated successfully!">>)
    /\ pc' = "done"
    /\ exitCode' = 0
    /\ UNCHANGED <<idx, icon, dirs, files, tree0, wrote, failedAt, renderVars>>

Next ==
    \/ PrintIosHeader
    \/ IosRender
    \/ IosSave
    \/ IosPrint
    \/ WriteManifest
    \/ PrintAndroidHeader
    \/ Makedirs
    \/ AndroidRender
    \/ SaveLauncher
    \/ SaveRound
    \/ AndroidPrint
    \/ PrintDone

Spec == Init /\ [][Next]_vars

---------------------------------------------------------------------------
(* create_app_icon(size): arithmetic *)

\* The largest size rendered pixel by pixel over the whole canvas.
MaxSize == 14

\* The sizes main() renders.
ExportSizes ==
    {ios_sizes[i][1] : i \in DOMAIN ios_sizes}
        \cup {android_sizes[i][1] : i \in DOMAIN android_sizes}

\* Every size up to MaxSize, and the sizes main() renders.
RenderSizes == (1..MaxSize) \cup ExportSizes

Abs(n) == IF n < 0 THEN -n ELSE n

\* int(n / d) for d > 0: Python's int() drops the fraction, toward zero.
Trunc(n, d) == IF n >= 0 THEN n \div d ELSE -((-n) \div d)

\* The largest power of two that is at most n (n >= 1).
RECURSIVE Pow2Below(_)
Pow2Below(n) == IF n < 2 THEN 1 ELSE 2 * Pow2Below(n \div 2)

\* int(s * 0.35). The double 0.35 lies 0.4 * 2^-54 below 35/100, so when
\* 35*s/100 is an integer n the product lies n/0.35 * 0.4 * 2^-54 below n, and
\* it rounds to the double below n, which int() takes to n - 1, exactly when
\* that is more than half the spacing of the doubles below n: 4*n > 7*2^k for
\* 2^k <= n < 2^(k+1). (s = 180 is the first such size: int(180 * 0.35) = 62.)
IntOf35Percent(s) ==
    LET n == (35 * s) \div 100 IN
      IF (35 * s) % 100 = 0 /\ n >= 1 /\ 4 * n > 7 * Pow2Below(n) THEN n - 1 ELSE n

\* int(s * 0.6). The double 0.6 lies 0.4 * 2^-54 below 6/10 too, but the
\* product never falls half a spacing below an integer.
IntOf60Percent(s) == (6 * s) \div 10

Transparent == <<0, 0, 0, 0>>
White == <<255, 255, 255, 255>>
OpeningInk == <<48, 63, 159, 255>>
Gold == <<255, 215, 0, 255>>

\* int(top + (bottom - top) * ratio) with ratio = y / s. The doubles give the
\* truncation of the exact quotient for every s and y < s in reach.
GradChannel(top, bottom, y, s) == Trunc(top * s + (bottom - top) * y, s)

\* Faulty variant: the gradient runs from the bottom colour to the top colour.
GradientInk_Reversed(y, s) ==
    <<GradChannel(48, 63, y, s), GradChannel(63, 81, y, s), GradChannel(159, 181, y, s), 255>>

\* The fill (r, g, b, 255) of row y.
GradientInk(y, s) ==
    <<GradChannel(63, 48, y, s), GradChannel(81, 63, y, s), GradChannel(181, 159, y, s), 255>>

---------------------------------------------------------------------------
(* The canvas, and Pillow's drawing calls as the code uses them *)

X(p) == p[1]
Y(p) == p[2]

Corners(s) == {<<0, 0>>, <<s - 1, 0>>, <<0, s - 1>>, <<s - 1, s - 1>>}

\* The pixels the model carries. Every drawing call sets a pixel from that
\* pixel's own old value and the shape drawn, so a part of the canvas evolves
\* exactly as it does within the whole: the whole canvas up to MaxSize, the
\* corners and the vertical centerline beyond.
View(s) ==
    IF s <= MaxSize THEN (0..(s - 1)) \X (0..(s - 1))
    ELSE Corners(s) \cup {<<s \div 2, y>> : y \in 0..(s - 1)}

\* Image.new(mode, (s, s), ink)
NewImage(s, ink) == [p \in View(s) |-> ink]

\* ImageDraw.rectangle([(x0, y0), (x1, y1)], fill=ink): both corners are
\* inside the rectangle; what falls outside the image is clipped.
Rectangle(im, x0, y0, x1, y1, ink) ==
    [p \in DOMAIN im |->
        IF x0 <= X(p) /\ X(p) <= x1 /\ y0 <= Y(p) /\ Y(p) <= y1 THEN ink ELSE im[p]]

\* quarter_delta of Pillow's ellipse: how far (x, y), in half pixels from the
\* centre, is off the curve. Every call here has a = b, and the common factor
\* a*a is divided out of the deltas quarter_next compares.
QuarterDelta(a, b, x, y) ==
    IF a = b THEN Abs(x * x + y * y - a * a)
    ELSE Abs(a * a * y * y + b * b * x * x - a * a * b * b)

\* quarter_next: one step along the outline of a quarter of the ellipse of
\* diameters a, b, from (cx, cy) to the nearest of the three points up, up and
\* in, and in; at the last point, (a % 2, b), it stays. `first` maps each row
\* seen so far to the first, outermost, point of the outline in it.
QuarterNext(a, b, st) ==
    LET cx == st.cx
        cy == st.cy
        first == IF cy \in DOMAIN st.first THEN st.first ELSE (cy :> cx) @@ st.first
    IN IF cx = a % 2 /\ cy = b THEN [cx |-> cx, cy |-> cy, first |-> first]
       ELSE
         LET d1 == QuarterDelta(a, b, cx, cy + 2)
             d2 == QuarterDelta(a, b, cx - 2, cy + 2)
             d3 == QuarterDelta(a, b, cx - 2, cy)
             diag == cx > 1 /\ d1 > d2
             flat == cx > 1 /\ (IF diag THEN d2 ELSE d1) > d3
         IN [cx |-> IF flat \/ diag THEN cx - 2 ELSE cx,
             cy |-> IF flat THEN cy ELSE cy + 2,
             first |-> first]

\* n steps of quarter_next.
RECURSIVE QuarterWalk(_, _, _, _)
QuarterWalk(a, b, st, n) ==
    IF n = 0 THEN st
    ELSE IF n = 1 THEN QuarterNext(a, b, st)
    ELSE CHOOSE end \in {QuarterWalk(a, b, half, n - n \div 2) :
                             half \in {QuarterWalk(a, b, st, n \div 2)}} : TRUE

\* ellipse_next, for a filled ellipse: the half width of each row, in half
\* pixels from the centre, is the first point of the outline in that row. No
\* outline is longer than (a + b) / 2 + 1 points.
EllipseHalfWidths(a, b) ==
    QuarterWalk(a, b, [cx |-> a, cy |-> b % 2, first |-> <<>>], (a + b) \div 2 + 2).first

\* draw_pieslice over the box (bx, by)-(bx + d, by + d) for a quarter turn: the
\* quarter of the disc on the (sx, sy) side of the centre, both radii included.
InQuarterDisc(p, bx, by, d, sx, sy, widths) ==
    LET hx == 2 * (X(p) - bx) - d
        hy == 2 * (Y(p) - by) - d
    IN /\ Abs(hx) <= d /\ Abs(hy) <= d
       /\ sx * hx >= 0 /\ sy * hy >= 0
       /\ Abs(hx) <= widths[Abs(hy)]

\* ImageDraw.rounded_rectangle([(x0, y0), (x1, y1)], radius, fill=ink) with
\* all four corners: a plain rectangle when the radius is 0; else four
\* quarter discs of diameter d = 2 * radius in the corners of the box, the
\* band between them and the two side strips. (Pillow joins the corners into
\* half discs or a full ellipse when d >= x1 - x0 - 1; with the radius
\* size // 5 on a box of side size that is so at size 1 alone, where the
\* ellipse fills the one pixel as the rectangle does.)
RoundedRectangle(im, x0, y0, x1, y1, radius, ink) ==
    IF radius = 0 THEN Rectangle(im, x0, y0, x1, y1, ink)
    ELSE
      LET d == 2 * radius
          r == radius
          widths == EllipseHalfWidths(d, d)
          corners == [p \in DOMAIN im |->
                        IF \/ InQuarterDisc(p, x0, y0, d, -1, -1, widths)
                           \/ InQuarterDisc(p, x1 - d, y0, d, 1, -1, widths)
                           \/ InQuarterDisc(p, x1 - d, y1 - d, d, 1, 1, widths)
                           \/ InQuarterDisc(p, x0, y1 - d, d, -1, 1, widths)
                          THEN ink ELSE im[p]]
          middle == Rectangle(corners, x0 + r + 1, y0, x1 - r - 1, y1, ink)
          left == Rectangle(middle, x0, y0 + r + 1, x0 + r, y1 - r - 1, ink)
      IN Rectangle(left, x1 - r, y0 + r + 1, x1, y1 - r - 1, ink)

\* output.paste(img, (0, 0)) without a mask: the pixels are copied as they are.
Paste(onto, im) == [p \in DOMAIN onto |-> im[p]]

\* output.putalpha(mask): the alpha band is replaced by the mask.
PutAlpha(im, m) == [p \in DOMAIN im |-> <<im[p][1], im[p][2], im[p][3], m[p]>>]

---------------------------------------------------------------------------
(* ImageDraw.polygon(points, fill=ink): Pillow's scan-line fill *)

\* The edges: between consecutive points, and back to the first point unless
\* the last point is the first.
PolygonEdges(pts) ==
    LET n == Len(pts)
        open == [i \in 1..(n - 1) |-> <<pts[i], pts[i + 1]>>]
    IN IF pts[n] # pts[1] THEN Append(open, <<pts[n], pts[1]>>) ELSE open

Min(a, b) == IF a <= b THEN a ELSE b
Max(a, b) == IF a >= b THEN a ELSE b

EdgeYMin(e) == Min(Y(e[1]), Y(e[2]))
EdgeYMax(e) == Max(Y(e[1]), Y(e[2]))
IsFlat(e) == Y(e[1]) = Y(e[2])

\* Where edge e crosses row y: x0 + (y - y0) * dx as the fraction <<n, d>>,
\* d > 0. (Pillow computes dx and the product in single precision; the model
\* keeps the exact quotient.)
Crossing(e, y) ==
    LET dy == Y(e[2]) - Y(e[1])
        n == X(e[1]) * dy + (y - Y(e[1])) * (X(e[2]) - X(e[1]))
    IN IF dy > 0 THEN <<n, dy>> ELSE <<-n, -dy>>

FracLeq(f, g) == f[1] * g[2] <= g[1] * f[2]

\* ROUND_UP: the nearest integer, a half rounded up. (Coordinates are >= 0.)
RoundUp(f) == (2 * f[1] + f[2]) \div (2 * f[2])

\* ROUND_DOWN: the nearest integer, a half rounded down.
RoundDown(f) == -((f[2] - 2 * f[1]) \div (2 * f[2]))

RECURSIVE SortFracs(_)
SortFracs(fs) ==
    IF fs = <<>> THEN <<>>
    ELSE LET i == CHOOSE i \in DOMAIN fs : \A j \in DOMAIN fs : FracLeq(fs[i], fs[j])
         IN <<fs[i]>> \o SortFracs([k \in 1..(Len(fs) - 1) |-> IF k < i THEN fs[k] ELSE fs[k + 1]])

\* The crossings of row y, in edge order: one per edge that reaches the row,
\* and a second one for an edge that ends in a row above the polygon's last.
RECURSIVE RowCrossings(_, _, _)
RowCrossings(edges, y, ymax) ==
    IF edges = <<>> THEN <<>>
    ELSE LET e == Head(edges)
             rest == RowCrossings(Tail(edges), y, ymax)
         IN IF IsFlat(e) \/ y < EdgeYMin(e) \/ y > EdgeYMax(e) THEN rest
            ELSE IF y = EdgeYMax(e) /\ y < ymax
                   THEN <<Crossing(e, y), Crossing(e, y)>> \o rest
                   ELSE <<Crossing(e, y)>> \o rest

\* The spans <<first, last>> the fill draws in row y: between the crossings,
\* sorted, taken in pairs. `flat` says whether the polygon's horizontal edges
\* count into its extent (they do where they are drawn).
RowSpans(edges, y, height, flat) ==
    LET counted == {i \in DOMAIN edges : flat \/ ~IsFlat(edges[i])}
        lows == {EdgeYMin(edges[i]) : i \in counted} \cup {height - 1}
        highs == {EdgeYMax(edges[i]) : i \in counted} \cup {0}
        ymin == Max(0, CHOOSE v \in lows : \A w \in lows : v <= w)
        ymax == Min(height, CHOOSE v \in highs : \A w \in highs : v >= w)
        xx == SortFracs(RowCrossings(edges, y, ymax))
    IN IF y < ymin \/ y > ymax THEN {}
       ELSE {<<RoundUp(xx[2 * k - 1]), RoundDown(xx[2 * k])>> : k \in 1..(Len(xx) \div 2)}

\* Faulty variant: the fill stops short of the polygon's first row, leaving its apex out.
Polygon_NoApex(im, pts, ink, height, flat) ==
    LET edges == PolygonEdges(pts)
        top == CHOOSE v \in {Y(pts[i]) : i \in DOMAIN pts} :
                   \A i \in DOMAIN pts : v <= Y(pts[i])
        spans == [y \in {Y(p) : p \in DOMAIN im} |-> RowSpans(edges, y, height, flat)]
    IN [p \in DOMAIN im |->
          IF Y(p) > top /\ \E sp \in spans[Y(p)] : sp[1] <= X(p) /\ X(p) <= sp[2]
            THEN ink ELSE im[p]]

\* The fill of the polygon on an image `height` rows high. A Pillow that
\* draws a polygon's horizontal edges (`flat`) also paints each of them as a
\* line of its own; one that does not leaves a polygon of no height undrawn.
Polygon(im, pts, ink, height, flat) ==
    LET edges == PolygonEdges(pts)
        spans == [y \in {Y(p) : p \in DOMAIN im} |-> RowSpans(edges, y, height, flat)]
    IN [p \in DOMAIN im |->
          IF \/ \E sp \in spans[Y(p)] : sp[1] <= X(p) /\ X(p) <= sp[2]
             \/ /\ flat
                /\ \E i \in DOMAIN edges :
                      /\ IsFlat(edges[i])
                      /\ Y(edges[i][1]) = Y(p)
                      /\ Min(X(edges[i][1]), X(edges[i][2])) <= X(p)
                      /\ X(p) <= Max(X(edges[i][1]), X(edges[i][2]))
            THEN ink ELSE im[p]]

---------------------------------------------------------------------------
(* create_app_icon(size): the shapes *)

tent_width(s) == s \div 2
tent_height(s) == IntOf35Percent(s)
tent_x(s) == s \div 2
tent_y(s) == IntOf60Percent(s)

tent_points(s) ==
    << <<tent_x(s) - tent_width(s) \div 2, tent_y(s)>>,
       <<tent_x(s), tent_y(s) - tent_height(s)>>,
       <<tent_x(s) + tent_width(s) \div 2, tent_y(s)>> >>

opening_width(s) == tent_width(s) \div 2

opening_height(s) == tent_height(s) \div 2

opening_points(s) ==
    << <<tent_x(s) - opening_width(s) \div 2, tent_y(s)>>,
       <<tent_x(s), tent_y(s) - opening_height(s)>>,
       <<tent_x(s) + opening_width(s) \div 2, tent_y(s)>> >>

\* star_positions and draw_star's ten points, per unit of size and in
\* millionths: x + r * cos(angle) and y + r * sin(angle) with x, y and radius
\* the star's fractions of size, r = radius, or radius * 0.5 at odd i, and
\* angle = pi * i / 5 - pi / 2.
StarPointsMicro ==
    << << <<200000, 120000>>, <<223511, 167639>>, <<276085, 175279>>, <<238042, 212361>>,
          <<247023, 264721>>, <<200000, 240000>>, <<152977, 264721>>, <<161958, 212361>>,
          <<123915, 175279>>, <<176489, 167639>> >>,
       << <<800000, 90000>>, <<817634, 125729>>, <<857063, 131459>>, <<828532, 159271>>,
          <<835267, 198541>>, <<800000, 180000>>, <<764733, 198541>>, <<771468, 159271>>,
          <<742937, 131459>>, <<782366, 125729>> >>,
       << <<150000, 740000>>, <<167634, 775729>>, <<207063, 781459>>, <<178532, 809271>>,
          <<185267, 848541>>, <<150000, 830000>>, <<114733, 848541>>, <<121468, 809271>>,
          <<92937, 781459>>, <<132366, 775729>> >>,
       << <<850000, 770000>>, <<873511, 817639>>, <<926085, 825279>>, <<888042, 862361>>,
          <<897023, 914721>>, <<850000, 890000>>, <<802977, 914721>>, <<811958, 862361>>,
          <<773915, 825279>>, <<826489, 817639>> >> >>

\* The points of star k as draw.polygon takes them: Pillow drops the fraction
\* of each coordinate. (The millionths give the integer the doubles give for
\* every size up to 268 and for 1024.)
StarPoints(s, k) ==
    [i \in 1..10 |-> <<(s * StarPointsMicro[k][i][1]) \div 1000000,
                       (s * StarPointsMicro[k][i][2]) \div 1000000>>]

---------------------------------------------------------------------------
(* create_app_icon(size): one action per drawing call *)

MainIdle ==
    /\ pc = "idle"
    /\ idx = 1
    /\ icon = NoIcon
    /\ tree0 = [dirs |-> {}, files |-> <<>>]
    /\ dirs = {}
    /\ files = <<>>
    /\ stdout = <<>>
    /\ exitCode = -1
    /\ wrote = <<>>
    /\ failedAt = NoPath

\* A call create_app_icon(size), under a Pillow of either kind.
RenderInit ==
    /\ size \in RenderSizes
    /\ flatEdges \in BOOLEAN
    /\ rpc = "new_image"
    /\ row = 0
    /\ star = 1
    /\ img = <<>>
    /\ mask = <<>>
    /\ output = <<>>
    /\ MainIdle

\* img = Image.new('RGBA', (size, size), (0, 0, 0, 0)); draw = ImageDraw.Draw(img)
NewCanvas ==
    /\ rpc = "new_image"
    /\ img' = NewImage(size, Transparent)
    /\ rpc' = "gradient"
    /\ UNCHANGED <<size, flatEdges, row, star, mask, output, mainVars>>

\* Faulty variant: the line is drawn from the row above down to row y.
GradientRow_RowAbove ==
    /\ rpc = "gradient"
    /\ row < size
    /\ img' = Rectangle(img, 0, row - 1, size, row, GradientInk(row, size))
    /\ row' = row + 1
    /\ rpc' = IF row + 1 < size THEN "gradient" ELSE "draw_mask"
    /\ UNCHANGED <<size, flatEdges, star, mask, output, mainVars>>

\* One round of `for y in range(size)`:
\* draw.rectangle([(0, y), (size, y+1)], fill=(r, g, b, 255))
GradientRow ==
    /\ rpc = "gradient"
    /\ row < size
    /\ img' = Rectangle(img, 0, row, size, row + 1, GradientInk(row, size))
    /\ row' = row + 1
    /\ rpc' = IF row + 1 < size THEN "gradient" ELSE "draw_mask"
    /\ UNCHANGED <<size, flatEdges, star, mask, output, mainVars>>

\* mask = Image.new('L', (size, size), 0)
\* mask_draw.rounded_rectangle([(0, 0), (size, size)], radius=size // 5, fill=255)
DrawMask ==
    /\ rpc = "draw_mask"
    /\ mask' = RoundedRectangle(NewImage(size, 0), 0, 0, size, size, size \div 5, 255)
    /\ rpc' = "paste"
    /\ UNCHANGED <<size, flatEdges, row, star, img, output, mainVars>>

\* output = Image.new('RGBA', (size, size), (0, 0, 0, 0)); output.paste(img, (0, 0))
PasteImage ==
    /\ rpc = "paste"
    /\ output' = Paste(NewImage(size, Transparent), img)
    /\ rpc' = "putalpha"
    /\ UNCHANGED <<size, flatEdges, row, star, img, mask, mainVars>>

\* output.putalpha(mask)
ApplyMask ==
    /\ rpc = "putalpha"
    /\ output' = PutAlpha(output, mask)
    /\ rpc' = "tent"
    /\ UNCHANGED <<size, flatEdges, row, star, img, mask, mainVars>>

\* draw.polygon(tent_points, fill=(255, 255, 255, 255))
DrawTent ==
    /\ rpc = "tent"
    /\ output' = Polygon(output, tent_points(size), White, size, flatEdges)
    /\ rpc' = "opening"
    /\ UNCHANGED <<size, flatEdges, row, star, img, mask, mainVars>>

\* draw.polygon(opening_points, fill=(48, 63, 159, 255))
DrawOpening ==
    /\ rpc = "opening"
    /\ output' = Polygon(output, opening_points(size), OpeningInk, size, flatEdges)
    /\ rpc' = "stars"
    /\ UNCHANGED <<size, flatEdges, row, star, img, mask, mainVars>>

\* One round of `for x, y, radius in star_positions: draw_star(x, y, radius)`
DrawStar ==
    /\ rpc = "stars"
    /\ output' = Polygon(output, StarPoints(size, star), Gold, size, flatEdges)
    /\ IF star < Len(StarPointsMicro)
         THEN star' = star + 1 /\ rpc' = "stars"
         ELSE star' = star /\ rpc' = "return"
    /\ UNCHANGED <<size, flatEdges, row, img, mask, mainVars>>

\* return output
Return ==
    /\ rpc = "return"
    /\ rpc' = "returned"
    /\ UNCHANGED <<size, flatEdges, row, star, img, mask, output, mainVars>>

RenderNext ==
    \/ NewCanvas
    \/ GradientRow
    \/ DrawMask
    \/ PasteImage
    \/ ApplyMask
    \/ DrawTent
    \/ DrawOpening
    \/ DrawStar
    \/ Return

RenderSpec == RenderInit /\ [][RenderNext]_vars

---------------------------------------------------------------------------
(* Reading the outputs back, as a consumer of the files would. *)

Range(s) == {s[i] : i \in DOMAIN s}

\* A JSON object parsed into a mapping: a repeated key keeps its last value.
JsonObject(members) ==
    [k \in {members[i][1] : i \in DOMAIN members} |->
        members[CHOOSE i \in DOMAIN members :
                    /\ members[i][1] = k
                    /\ \A j \in DOMAIN members : j > i => members[j][1] # k][2]]

DigitValue(c) ==
    CASE c = "0" -> 0 [] c = "1" -> 1 [] c = "2" -> 2 [] c = "3" -> 3 [] c = "4" -> 4
      [] c = "5" -> 5 [] c = "6" -> 6 [] c = "7" -> 7 [] c = "8" -> 8 [] c = "9" -> 9

RECURSIVE ParseNat(_)
ParseNat(chars) ==
    IF chars = <<>> THEN 0
    ELSE 10 * ParseNat(SubSeq(chars, 1, Len(chars) - 1)) + DigitValue(chars[Len(chars)])

\* The number in front of the first "x": 20 in "20x20", 3 in "3x".
LeadingNumber(chars) ==
    LET x == CHOOSE i \in DOMAIN chars :
                 chars[i] = "x" /\ \A j \in 1..(i - 1) : chars[j] # "x"
    IN ParseNat(SubSeq(chars, 1, x - 1))

ManifestPath == <<IosDir, "Contents.json">>

IosPngPaths == {<<IosDir, ios_sizes[i][2]>> : i \in 1..Len(ios_sizes)}

LauncherPaths == {<<d, "ic_launcher.png">> : d \in AndroidFolders}

RoundPaths == {<<d, "ic_launcher_round.png">> : d \in AndroidFolders}

\* The manifest as parsed from the file this run wrote.
ManifestWritten == ManifestPath \in Range(wrote)

ParsedManifest == JsonObject(files[ManifestPath].members)

ParsedImages ==
    [i \in DOMAIN ParsedManifest["images"] |-> JsonObject(ParsedManifest["images"][i])]

FilesIn(d) == {p \in DOMAIN files : DirOf(p) = d}

\* The path a "Created ..." line names, NoPath for any other line.
NamedBy(line) ==
    IF line[1] # "Created" THEN NoPath
    ELSE IF Len(line) = 3 THEN <<IosDir, line[2]>>
    ELSE <<line[2], line[3]>>

Announced == {NamedBy(stdout[i]) : i \in DOMAIN stdout} \ {NoPath}

\* Everything main() creates, in program order; <<folder, "">> is the folder.
WriteOrder ==
    [i \in 1..Len(ios_sizes) |-> <<IosDir, ios_sizes[i][2]>>]
    \o <<ManifestPath>>
    \o [k \in 1..(3 * Len(android_sizes)) |->
          LET folder == android_sizes[(k + 2) \div 3][2] IN
            CASE k % 3 = 1 -> <<folder, "">>
              [] k % 3 = 2 -> <<folder, "ic_launcher.png">>
              [] OTHER -> <<folder, "ic_launcher_round.png">>]

PositionOf(p) == CHOOSE k \in DOMAIN WriteOrder : WriteOrder[k] = p

\* The pixel size main() renders for an output file.
PixelSizeOf(p) ==
    IF DirOf(p) = IosDir
      THEN ios_sizes[CHOOSE i \in DOMAIN ios_sizes : ios_sizes[i][2] = p[2]][1]
      ELSE android_sizes[CHOOSE i \in DOMAIN android_sizes : android_sizes[i][2] = p[1]][1]

IsFolder(p) == p[2] = ""

\* Output p is as the tree main() started from had it.
Untouched(p) ==
    IF IsFolder(p) THEN (p[1] \in dirs) <=> (p[1] \in tree0.dirs)
    ELSE /\ Exists(p) <=> (p \in DOMAIN tree0.files)
         /\ Exists(p) => files[p] = tree0.files[p]

\* Output p is in place, complete.
InPlace(p) ==
    IF IsFolder(p) THEN p[1] \in dirs
    ELSE /\ Exists(p)
         /\ files[p] = IF p = ManifestPath THEN JsonDump(contents)
                       ELSE PngFile(Canvas(PixelSizeOf(p)))

---------------------------------------------------------------------------
(* Claims about main() *)

\* C3: a run that completes from a tree whose iOS icon directory is there and
\* empty and whose Android tree has no mipmap folder leaves exactly 8 PNGs
\* (one per ios_sizes entry, at that entry's size) and Contents.json in the iOS
\* directory, and exactly 5 Android folders holding exactly 2 PNGs each.
C3_EndToEnd ==
    (pc = "done" /\ tree0 = [dirs |-> {IosDir}, files |-> <<>>]) =>
        /\ Cardinality({p \in FilesIn(IosDir) : files[p].fmt = "PNG"}) = 8
        /\ FilesIn(IosDir) = IosPngPaths \cup {ManifestPath}
        /\ Cardinality(FilesIn(IosDir)) = 9
        /\ files[ManifestPath].fmt = "JSON"
        /\ \A i \in DOMAIN ios_sizes :
              LET f == files[<<IosDir, ios_sizes[i][2]>>] IN
                f.fmt = "PNG" /\ f.width = ios_sizes[i][1] /\ f.height = ios_sizes[i][1]
        /\ Cardinality(dirs \ {IosDir}) = 5
        /\ \A d \in dirs \ {IosDir} :
              /\ Cardinality(FilesIn(d)) = 2
              /\ \A p \in FilesIn(d) : files[p].fmt = "PNG"

C3_Witness ==
    /\ pc = "done"
    /\ tree0 = [dirs |-> {IosDir}, files |-> <<>>]
    /\ Len(wrote) = 19

\* C4: the manifest written to Contents.json parses to exactly 9 image
\* entries, each with exactly the fields size, idiom, filename and scale, the
\* idiom "iphone" or "ios-marketing" and the scale "1x", "2x" or "3x", and to
\* an info block equal to {version: 1, author: "xcode"}.
C4_ManifestShape ==
    ManifestWritten =>
        /\ files[ManifestPath].fmt = "JSON"
        /\ DOMAIN ParsedManifest = {"images", "info"}
        /\ Len(ParsedManifest["images"]) = 9
        /\ \A i \in DOMAIN ParsedImages :
              /\ Len(ParsedManifest["images"][i]) = 4
              /\ DOMAIN ParsedImages[i] = {"size", "idiom", "filename", "scale"}
              /\ ParsedImages[i]["idiom"] \in {"iphone", "ios-marketing"}
              /\ ParsedImages[i]["scale"] \in {S1x, S2x, S3x}
        /\ LET info == JsonObject(ParsedManifest["info"]) IN
              /\ DOMAIN info = {"version", "author"}
              /\ Len(ParsedManifest["info"]) = 2
              /\ info["version"] = 1
              /\ info["author"] = "xcode"

C4_Witness ==
    /\ ManifestWritten
    /\ pc = "done"
    /\ \E i \in DOMAIN ParsedImages : ParsedImages[i]["idiom"] = "ios-marketing"

\* C10: every image entry of the manifest names a file the iOS loop wrote
\* earlier in the same run, rendered at the entry's nominal size times its
\* scale, and each of the 8 iOS files is named by at least one entry.
C10_ManifestMatchesFiles ==
    ManifestWritten =>
        LET at == CHOOSE k \in DOMAIN wrote : wrote[k] = ManifestPath IN
        /\ \A i \in DOMAIN ParsedImages :
              LET e == ParsedImages[i]
                  p == <<IosDir, e["filename"]>>
              IN /\ \E k \in 1..(at - 1) : wrote[k] = p
                 /\ Exists(p)
                 /\ files[p].fmt = "PNG"
                 /\ files[p].width = LeadingNumber(e["size"]) * LeadingNumber(e["scale"])
                 /\ files[p].bitmap = Canvas(files[p].width)
        /\ \A k \in 1..(at - 1) :
              \E i \in DOMAIN ParsedImages : <<IosDir, ParsedImages[i]["filename"]>> = wrote[k]
        /\ Cardinality({wrote[k] : k \in 1..(at - 1)}) = 8

C10_Witness ==
    /\ ManifestWritten
    /\ \E i \in DOMAIN ParsedImages :
          /\ ParsedImages[i]["size"] = S20x20
          /\ ParsedImages[i]["scale"] = S3x
          /\ files[<<IosDir, ParsedImages[i]["filename"]>>].width = 60

\* C8: after a run that completes, each density folder exists, whether or not
\* it did before, and its ic_launcher.png and ic_launcher_round.png hold the
\* same bitmap: the canvas rendered at the folder's pixel size.
C8_AndroidPairs ==
    pc = "done" =>
        \A i \in DOMAIN android_sizes :
            LET px == android_sizes[i][1]
                folder == android_sizes[i][2]
                a == <<folder, "ic_launcher.png">>
                b == <<folder, "ic_launcher_round.png">>
            IN /\ folder \in dirs
               /\ Exists(a) /\ Exists(b)
               /\ files[a].fmt = "PNG" /\ files[b].fmt = "PNG"
               /\ files[a].bitmap = files[b].bitmap
               /\ files[a].bitmap = Canvas(px)
               /\ files[a].width = px /\ files[b].width = px

C8_Witness ==
    /\ pc = "done"
    /\ "mipmap-mdpi" \in tree0.dirs
    /\ "mipmap-hdpi" \notin tree0.dirs
    /\ files[<<"mipmap-hdpi", "ic_launcher_round.png">>].bitmap = Canvas(72)

\* C6: once a write (or a makedirs) has raised, the run is over with a
\* non-zero status; the failed write was not done again, no output that comes
\* later in the sequence has been created or changed, every output that comes
\* earlier is in place, and no further step is taken.
C6_AfterFailure ==
    failedAt # NoPath =>
        /\ pc = "crashed"
        /\ exitCode = 1
        /\ failedAt \notin Range(wrote)
        /\ failedAt \notin Announced
        /\ \A k \in DOMAIN WriteOrder :
              /\ k < PositionOf(failedAt) => InPlace(WriteOrder[k])
              /\ k > PositionOf(failedAt) => Untouched(WriteOrder[k])

C7_EveryFileAnnounced ==
    /\ Announced \subseteq Range(wrote)
    /\ pc = "done" => (exitCode = 0 /\ Range(wrote) \subseteq Announced)

\* C7, amended: every "Created" line names a PNG this run has already written,
\* with the size the line gives; a run that completes exits 0 having announced
\* exactly the 8 iOS PNGs and the 5 ic_launcher.png files, and neither
\* Contents.json nor any ic_launcher_round.png.
C7_ProgressLines ==
    /\ \A i \in DOMAIN stdout :
          LET p == NamedBy(stdout[i]) IN
            p # NoPath =>
              /\ p \in Range(wrote)
              /\ Exists(p)
              /\ files[p].fmt = "PNG"
              /\ files[p].width = stdout[i][Len(stdout[i])]
    /\ pc = "done" =>
          /\ exitCode = 0
          /\ Announced = IosPngPaths \cup LauncherPaths
          /\ Range(wrote) \ Announced = {ManifestPath} \cup RoundPaths
          /\ Len(stdout) = 16

C7_Witness ==
    /\ pc = "done"
    /\ exitCode = 0
    /\ <<"mipmap-xxxhdpi", "ic_launcher.png">> \in Announced
    /\ <<"mipmap-xxxhdpi", "ic_launcher_round.png">> \in Range(wrote)

---------------------------------------------------------------------------
(* Claims about create_app_icon(size) *)

\* The row of the pixel C1 names: int(0.6*size - 0.35*size*0.5), which the
\* doubles make the whole part of 17*size/40 at every size.
MidRow(s) == Trunc(17 * s, 40)

MidPixel(s) == <<s \div 2, MidRow(s)>>

\* C1 as stated: at every size the pixel on the centerline at the tent's
\* mid-height is opaque white in the canvas returned.
C1_MidPixelWhite ==
    rpc = "returned" => output[MidPixel(size)] = White

\* C1, amended: at every size from 4 on, that pixel is opaque white when its
\* row lies above the opening's apex row tent_y - tent_height // 2, and holds
\* the opening's colour (48, 63, 159, 255) when it is the apex row or lies
\* below it: the opening, drawn after the tent, repaints it.
C1_MidPixelWhiteAboveApex ==
    (rpc = "returned" /\ size >= 4) =>
        LET apexRow == IntOf60Percent(size) - IntOf35Percent(size) \div 2 IN
          /\ MidRow(size) < apexRow => output[MidPixel(size)] = White
          /\ MidRow(size) >= apexRow => output[MidPixel(size)] = <<48, 63, 159, 255>>

C1_Witness ==
    /\ rpc = "returned"
    /\ size = 40
    /\ MidPixel(size) = <<20, 17>>
    /\ output[<<20, 17>>] = <<48, 63, 159, 255>>
    /\ output[<<20, 16>>] = White

\* C2: at every size from 5 on, the four corner pixels of the canvas returned
\* have alpha 0.
C2_CornersTransparent ==
    (rpc = "returned" /\ size >= 5) => \A p \in Corners(size) : output[p][4] = 0

\* C5: in every round of the gradient loop each channel computed for the row
\* is at most the channel computed for any row above it and lies between the
\* bottom colour (48, 63, 159) and the top colour (63, 81, 181); row 0 gets
\* exactly the top colour.
C5_GradientMonotone ==
    (rpc = "gradient" /\ row < size) =>
        LET ink == GradientInk(row, size) IN
          /\ \A y1 \in 0..(row - 1) : \A c \in 1..3 : ink[c] <= GradientInk(y1, size)[c]
          /\ 48 <= ink[1] /\ ink[1] <= 63
          /\ 63 <= ink[2] /\ ink[2] <= 81
          /\ 159 <= ink[3] /\ ink[3] <= 181
          /\ row = 0 => ink = <<63, 81, 181, 255>>

C5_Witness ==
    /\ rpc = "gradient"
    /\ size = 12
    /\ row = 11
    /\ GradientInk(row, size) = <<49, 64, 160, 255>>
    /\ GradientInk(row - 1, size) = <<50, 66, 162, 255>>

\* C9: once the gradient loop is over, every pixel of every row holds the ink
\* of that row, opaque; while it runs, the rows it has been through hold their
\* own ink and the row it is about to do holds the ink of the row above,
\* which the round before left there.
C9_RowsHoldOwnInk ==
    /\ rpc \notin {"new_image", "gradient"} =>
          \A p \in View(size) : img[p] = GradientInk(Y(p), size) /\ img[p][4] = 255
    /\ rpc = "gradient" =>
          \A p \in View(size) :
              /\ Y(p) < row => img[p] = GradientInk(Y(p), size)
              /\ (Y(p) = row /\ row >= 1) => img[p] = GradientInk(row - 1, size)
              /\ (Y(p) > row \/ row = 0) => img[p] = Transparent

C9_Witness ==
    /\ rpc = "draw_mask"
    /\ size = 10
    /\ img[<<0, 9>>] = GradientInk(9, 10)
    /\ img[<<9, 9>>] = GradientInk(9, 10)
    /\ GradientInk(9, 10) # GradientInk(8, 10)

=============================================================================
